---- MODULE Spec2Model ----
(***************************************************************************)
(* Model of sleuth/main.py (class CoarseSleuth) and of the generator it    *)
(* drives (sleuth/model/generator.py, class GeneratorAD).                  *)
(*                                                                         *)
(* One CoarseSleuth object is constructed (Init) and then used by a        *)
(* client that calls detector(ref, prepare_epochs) and                     *)
(* predictor(tgt, predict_epochs) in any order and any number of times,    *)
(* catching what they raise.                                               *)
(* A call is executed statement group by statement group; `pc` is the      *)
(* position inside the running call, `frame` holds its arguments and loop  *)
(* variables.                                                              *)
(***************************************************************************)
EXTENDS Integers, Sequences, FiniteSets, TLC

\* ---------------------------------------------------------------- bounds
MaxEpochs == 1      \* n_epochs, prepare_epochs, predict_epochs range over 0..MaxEpochs
MaxBatch  == 2      \* batch_size ranges over 1..MaxBatch
MaxCritic == 1      \* n_critic ranges over 0..MaxCritic
MaxRows   == 3      \* a reference has 1..MaxRows rows, a target 0..MaxRows
RngStates == 2      \* the random-number stream is followed modulo RngStates draws

\* Gene-name vectors the datasets may carry: a vector, a permutation of it,
\* a shorter one and one with a different name.
GeneVectors == { <<"a", "b">>, <<"b", "a">>, <<"a">>, <<"a", "c">> }

\* Gene-name vectors of the references.
RefGenes == { <<"a", "b">>, <<"a">> }

VARIABLES
    GPU,             \* constructor argument GPU
    cuda_available,  \* what torch.cuda.is_available() answers on this host
    warned,          \* the "GPU isn't available" line was printed
    device,          \* self.device
    n_epochs,        \* self.n_epochs
    bs,              \* self.bs
    n_critic,        \* self.n_critic
    attrs,           \* names of the attributes that exist on self
    genes,           \* self.genes
    loader,          \* self.loader
    G,               \* self.G   (GeneratorAD: weights, memory bank, mode)
    D,               \* self.D   (Discriminator: weights, mode)
    P,               \* self.P   (Predictor: weights, mode)
    sch,             \* self.sch_D / self.sch_G / self.sch_P: the optimizer each drives
    lr_steps,        \* per optimizer: how often its learning rate was stepped
    rng,             \* position of the global random-number stream (modulo RngStates)
    pc,              \* position in the running call ("idle": no call running)
    frame,           \* arguments and locals of the running call
    cnt,             \* per training phase: update calls made, optimizer steps done
    stage,           \* how far the training of the current G and D has come
    last             \* how the most recent finished call ended

vars == << GPU, cuda_available, warned, device, n_epochs, bs, n_critic, attrs,
           genes, loader, G, D, P, sch, lr_steps, rng, pc, frame, cnt, stage,
           last >>

ctor == << GPU, cuda_available, warned, device, n_epochs, bs, n_critic >>

\* ------------------------------------------------------ library behaviour
\* A value handed between the networks is either a tensor or the pair the
\* generator returns.
Tensor == "tensor"
Tuple  == "tuple"

\* A loader that always yields its incomplete last batch.
NumBatches_keeps_tail(l) ==
    (l.n + l.bs - 1) \div l.bs

\* torch.utils.data.DataLoader: the number of batches one pass yields.
NumBatches(l) ==
    IF l.drop_last THEN l.n \div l.bs ELSE (l.n + l.bs - 1) \div l.bs

\* The rows of batch k of an unshuffled loader, in order.
BatchRows(l, k) ==
    LET lo == (k - 1) * l.bs + 1
        hi == IF k * l.bs < l.n THEN k * l.bs ELSE l.n
    IN  [ r \in 1..(hi - lo + 1) |-> lo + r - 1 ]

NoLoader == [ n |-> 0, bs |-> 1, drop_last |-> FALSE, shuffle |-> FALSE ]

\* --------------------------------------------------------------- generator
\* MemoryBlock.forward: the attention-weighted read of the memory bank.  In
\* training mode the read has a side effect, the update of the slots nearest
\* to the queries (mem counts the slot updates made on the bank); in
\* evaluation mode it only reads.
MemoryBlock_forward(g) ==
    IF g.training THEN [ g EXCEPT !.mem = @ + 1 ] ELSE g

\* GeneratorAD.forward: Encoder, Memory (read, and slot update when
\* training), Decoder; returns the PAIR (x, z).
GeneratorAD_forward(g) ==
    [ ret |-> Tuple, G |-> MemoryBlock_forward(g) ]

\* GeneratorAD.prepare: Encoder, Decoder (memory bypassed); returns the pair (x, z).
GeneratorAD_prepare(g) ==
    [ ret |-> Tuple, G |-> g ]

\* The fake data _update_D and _update_G compute.
FakeData(g, prepare) ==
    IF prepare THEN GeneratorAD_prepare(g) ELSE GeneratorAD_forward(g)

\* Discriminator.forward scores a sample tensor; anything else is a fatal
\* contract violation.
Discriminator_forward(x) ==
    IF x = Tensor THEN "ok" ELSE "TypeError"

\* x.detach(): a method of tensors, not of tuples.
Detach(x) ==
    IF x = Tensor THEN "ok" ELSE "AttributeError"

\* nn.L1Loss()(data, fake_data): reads fake_data.size().
L1Loss(x) ==
    IF x = Tensor THEN "ok" ELSE "AttributeError"

\* ------------------------------------------------------------- constructor
\* A device choice that trusts the flag without asking the host.
SelectDevice_always_cuda(gpu, avail) ==
    IF gpu THEN "cuda:0" ELSE "cpu"

\* CoarseSleuth.__init__: the device chosen from the GPU flag.
SelectDevice(gpu, avail) ==
    IF gpu
    THEN IF avail THEN "cuda:0" ELSE "cpu"
    ELSE "cpu"

\* CoarseSleuth.__init__: the warning printed when the GPU is asked for and absent.
WarnsNoGPU(gpu, avail) == gpu /\ ~avail

\* ------------------------------------------------------------------ _check
\* A check that compares the two gene vectors as sets of names.
_check_as_sets(has, tgt_genes) ==
    IF "genes" \notin has THEN "AttributeError"
    ELSE IF { tgt_genes[i] : i \in 1..Len(tgt_genes) }
            # { genes[i] : i \in 1..Len(genes) } THEN "RuntimeError"
    ELSE IF ~ ({"G", "D"} \subseteq has) THEN "AttributeError"
    ELSE "ok"

\* CoarseSleuth._check: "ok", or the error it raises.
\*   self.genes missing                       -> AttributeError
\*   Index != Index of another length         -> ValueError
\*   some position differs                    -> RuntimeError (different genes)
\*   self.G / self.D missing                  -> AttributeError
_check(has, tgt_genes) ==
    IF "genes" \notin has THEN "AttributeError"
    ELSE IF Len(tgt_genes) # Len(genes) THEN "ValueError"
    ELSE IF \E i \in 1..Len(genes) : tgt_genes[i] # genes[i] THEN "RuntimeError"
    ELSE IF ~ ({"G", "D"} \subseteq has) THEN "AttributeError"
    ELSE "ok"

\* ------------------------------------------------------------ bookkeeping
NoCount == [ dCall |-> 0, dStep |-> 0, gCall |-> 0, gStep |-> 0 ]
ZeroCnt == [ prepare |-> NoCount, train |-> NoCount ]

NoFrame ==
    [ op |-> "none", genes |-> << >>, rows |-> 0, epochs |-> 0, phase |-> "none",
      epoch |-> 0, i |-> 0, j |-> 0, c |-> 0, real_d |-> << >>, fake_d |-> << >>,
      again |-> FALSE, before |-> << >> ]

NoCall ==
    [ op |-> "none", genes |-> << >>, rows |-> 0, epochs |-> 0, phase |-> "none",
      outcome |-> "none", line |-> 0, real_d |-> << >>, fake_d |-> << >>,
      output |-> << >>, batches |-> 0, stored |-> << >>,
      trained |-> FALSE, again |-> FALSE, before |-> << >> ]

\* How the running call ended: by returning `out`, or by raising `err` at `line`.
Ended(f, outcome, line, out) ==
    [ op |-> f.op, genes |-> f.genes, rows |-> f.rows, epochs |-> f.epochs,
      phase |-> f.phase, outcome |-> outcome, line |-> line,
      real_d |-> f.real_d, fake_d |-> f.fake_d, output |-> out,
      batches |-> NumBatches(loader), stored |-> genes,
      trained |-> "genes" \in attrs, again |-> f.again, before |-> f.before ]

\* Where _train starts on a batch: the first critic step, or the generator
\* step when there are no critic steps.
TrainEntry == IF n_critic > 0 THEN "update_D" ELSE "update_G"

\* ------------------------------------------------------------ construction
\* The state after CoarseSleuth(n_epochs, batch_size, n_critic, GPU) on a host
\* with or without an accelerator.  Nothing but the hyperparameters, the
\* device and the loss weights exists on the object yet.
Init ==
    /\ GPU \in BOOLEAN
    /\ cuda_available \in BOOLEAN
    /\ n_epochs \in 0..MaxEpochs
    /\ bs \in 1..MaxBatch
    /\ n_critic \in 0..MaxCritic
    /\ device = SelectDevice(GPU, cuda_available)
    /\ warned = WarnsNoGPU(GPU, cuda_available)
    /\ attrs = { "n_epochs", "bs", "lr", "n_critic", "device", "weight" }
    /\ genes = << >>
    /\ loader = NoLoader
    /\ G = [ init |-> 0, steps |-> 0, mem |-> 0, training |-> TRUE ]
    /\ D = [ init |-> 0, steps |-> 0, training |-> TRUE ]
    /\ P = [ init |-> 0, steps |-> 0, training |-> TRUE ]
    /\ sch = [ sch_D |-> "none", sch_G |-> "none", sch_P |-> "none" ]
    /\ lr_steps = [ opt_D |-> 0, opt_G |-> 0, opt_P |-> 0 ]
    /\ rng = 0
    /\ pc = "idle"
    /\ frame = NoFrame
    /\ cnt = ZeroCnt
    /\ stage = "uninitialized"
    /\ last = NoCall

\* The running call raises `err` at source line `line`: the client catches
\* it, and the object keeps whatever the call had assigned so far.
Raise(err, line) ==
    /\ pc' = "idle"
    /\ last' = Ended(frame, err, line, << >>)
    /\ frame' = NoFrame

\* ---------------------------------------------------------------- detector
\* detector(ref, prepare_epochs), lines 47-66: store the genes, build the
\* training loader, the two networks, their optimizers and schedulers, put
\* both networks in training mode; then enter _prepare.
detector(ref_genes, n_ref, prepare_epochs) ==
    /\ pc = "idle"
    /\ genes' = ref_genes
    /\ loader' = [ n |-> n_ref, bs |-> bs, drop_last |-> TRUE, shuffle |-> TRUE ]
    /\ D' = [ init |-> rng, steps |-> 0, training |-> TRUE ]
    /\ G' = [ init |-> rng, steps |-> 0, mem |-> 0, training |-> TRUE ]
    /\ rng' = (rng + 1) % RngStates
    /\ sch' = [ sch EXCEPT !.sch_D = "opt_D", !.sch_G = "opt_D" ]
    /\ lr_steps' = [ lr_steps EXCEPT !.opt_D = 0, !.opt_G = 0 ]
    /\ attrs' = attrs \cup { "genes", "loader", "D", "G", "opt_D", "opt_G",
                             "sch_D", "sch_G", "L1" }
    /\ cnt' = ZeroCnt
    /\ frame' = [ NoFrame EXCEPT !.op = "detector", !.genes = ref_genes,
                                 !.rows = n_ref, !.epochs = prepare_epochs,
                                 !.phase = "prepare" ]
    /\ pc' = "prepare_loop"
    /\ stage' = "uninitialized"
    /\ last' = NoCall
    /\ UNCHANGED << ctor, P >>

\* _prepare, lines 134-139: the head of the prepare-epoch loop.  An epoch
\* starts a pass over the loader and, for its first batch, calls _train,
\* which starts its own pass over the loader; with no batch the epoch goes
\* straight to its loss report; after the last epoch _prepare returns and
\* the adversarial loop of detector begins.
_prepare ==
    /\ pc = "prepare_loop"
    /\ IF frame.epoch < frame.epochs
       THEN IF NumBatches(loader) >= 1
            THEN /\ frame' = [ frame EXCEPT !.i = 1, !.j = 1, !.c = 0 ]
                 /\ pc' = TrainEntry
            ELSE /\ frame' = frame
                 /\ pc' = "prepare_report"
       ELSE /\ frame' = [ frame EXCEPT !.phase = "train", !.epoch = 0 ]
            /\ pc' = "train_loop"
    /\ stage' = IF frame.epoch < frame.epochs THEN stage ELSE "prepared"
    /\ UNCHANGED << ctor, attrs, genes, loader, G, D, P, sch, lr_steps, rng,
                    cnt, last >>

\* detector, lines 71-76 and 85: the head of the adversarial-epoch loop.
train_loop ==
    /\ pc = "train_loop"
    /\ IF frame.epoch < n_epochs
       THEN /\ IF NumBatches(loader) >= 1
               THEN /\ frame' = [ frame EXCEPT !.i = 1, !.j = 1, !.c = 0 ]
                    /\ pc' = TrainEntry
               ELSE /\ frame' = frame
                    /\ pc' = "sched"
            /\ last' = last
       ELSE /\ pc' = "idle"
            /\ last' = Ended(frame, "returned", 85, << >>)
            /\ frame' = NoFrame
    /\ stage' = IF frame.epoch < n_epochs THEN stage ELSE "trained"
    /\ UNCHANGED << ctor, attrs, genes, loader, G, D, P, sch, lr_steps, rng,
                    cnt >>

\* What follows a completed generator step (the end of _train's loop body):
\* the next batch of _train's own pass; when that pass is over, the next
\* batch of the caller's pass, for which _train is called again; when that
\* is over too, the end of the epoch.
AfterBatch(f) ==
    LET B == NumBatches(loader) IN
    IF f.j < B
    THEN [ pc |-> TrainEntry, frame |-> [ f EXCEPT !.j = f.j + 1, !.c = 0 ] ]
    ELSE IF f.i < B
    THEN [ pc |-> TrainEntry, frame |-> [ f EXCEPT !.i = f.i + 1, !.j = 1, !.c = 0 ] ]
    ELSE [ pc |-> IF f.phase = "prepare" THEN "prepare_report" ELSE "sched",
           frame |-> f ]

\* _update_D, lines 154-165.
_update_D ==
    /\ pc = "update_D"
    /\ LET ph   == frame.phase
           fake == FakeData(G, ph = "prepare")
       IN  /\ G' = fake.G
           /\ IF Detach(fake.ret) # "ok"
              THEN /\ Raise(Detach(fake.ret), 159)
                   /\ cnt' = [ cnt EXCEPT ![ph].dCall = @ + 1 ]
                   /\ UNCHANGED << D, attrs >>
              ELSE /\ D' = [ D EXCEPT !.steps = @ + 1 ]
                   /\ attrs' = attrs \cup { "D_loss" }
                   /\ cnt' = [ cnt EXCEPT ![ph].dCall = @ + 1, ![ph].dStep = @ + 1 ]
                   /\ frame' = [ frame EXCEPT !.c = @ + 1 ]
                   /\ pc' = IF frame.c + 1 < n_critic THEN "update_D" ELSE "update_G"
                   /\ last' = last
    /\ UNCHANGED << ctor, stage, genes, loader, P, sch, lr_steps, rng >>

\* _update_G, lines 167-179.
_update_G ==
    /\ pc = "update_G"
    /\ LET ph   == frame.phase
           fake == FakeData(G, ph = "prepare")
           err  == IF Discriminator_forward(fake.ret) # "ok"
                   THEN [ e |-> Discriminator_forward(fake.ret), line |-> 172 ]
                   ELSE [ e |-> L1Loss(fake.ret), line |-> 174 ]
       IN  IF err.e # "ok"
           THEN /\ Raise(err.e, err.line)
                /\ G' = fake.G
                /\ cnt' = [ cnt EXCEPT ![ph].gCall = @ + 1 ]
                /\ attrs' = attrs
           ELSE /\ G' = [ fake.G EXCEPT !.steps = @ + 1 ]
                /\ attrs' = attrs \cup { "G_loss" }
                /\ cnt' = [ cnt EXCEPT ![ph].gCall = @ + 1, ![ph].gStep = @ + 1 ]
                /\ frame' = AfterBatch(frame).frame
                /\ pc' = AfterBatch(frame).pc
                /\ last' = last
    /\ UNCHANGED << ctor, stage, genes, loader, D, P, sch, lr_steps, rng >>

\* The per-epoch loss report, G_loss.item() and D_loss.item(): the error it
\* raises when a loss was never assigned, else "ok".
LossReport(has) ==
    IF {"G_loss", "D_loss"} \subseteq has THEN "ok" ELSE "AttributeError"

\* _prepare, lines 141-143: report the losses and end the prepare epoch.
prepare_report ==
    /\ pc = "prepare_report"
    /\ IF LossReport(attrs) # "ok"
       THEN Raise(LossReport(attrs), 141)
       ELSE /\ frame' = [ frame EXCEPT !.epoch = @ + 1 ]
            /\ pc' = "prepare_loop"
            /\ last' = last
    /\ UNCHANGED << ctor, stage, attrs, genes, loader, G, D, P, sch, lr_steps, rng,
                    cnt >>

\* detector, lines 79-80: self.sch_D.step(); self.sch_G.step().  Each
\* scheduler steps the learning rate of the optimizer it was built on.
SchedulerSteps(steps, s) ==
    LET one == [ steps EXCEPT ![s.sch_D] = @ + 1 ]
    IN  [ one EXCEPT ![s.sch_G] = @ + 1 ]

sched ==
    /\ pc = "sched"
    /\ lr_steps' = SchedulerSteps(lr_steps, sch)
    /\ pc' = "train_report"
    /\ UNCHANGED << ctor, stage, attrs, genes, loader, G, D, P, sch, rng, frame, cnt,
                    last >>

\* detector, lines 81-83: report the losses and end the adversarial epoch.
train_report ==
    /\ pc = "train_report"
    /\ IF LossReport(attrs) # "ok"
       THEN Raise(LossReport(attrs), 81)
       ELSE /\ frame' = [ frame EXCEPT !.epoch = @ + 1 ]
            /\ pc' = "train_loop"
            /\ last' = last
    /\ UNCHANGED << ctor, stage, attrs, genes, loader, G, D, P, sch, lr_steps, rng,
                    cnt >>

\* --------------------------------------------------------------- predictor
\* A predictor that puts both networks in evaluation mode before it checks
\* the target's gene vector.
predictor_eval_first(tgt_genes) ==
    /\ pc = "idle"
    /\ D' = [ D EXCEPT !.training = FALSE ]
    /\ G' = [ G EXCEPT !.training = FALSE ]
    /\ LET f == [ NoFrame EXCEPT !.op = "predictor", !.genes = tgt_genes,
                                 !.phase = "check" ]
           c == _check(attrs, tgt_genes)
       IN  IF c # "ok"
           THEN /\ pc' = "idle"
                /\ last' = Ended(f, c, 183, << >>)
                /\ frame' = NoFrame
           ELSE /\ pc' = "load_target"
                /\ frame' = f
                /\ last' = last
    /\ UNCHANGED << ctor, stage, attrs, genes, loader, P, sch, lr_steps, rng, cnt >>

\* predictor(tgt, predict_epochs), line 88: the precondition check on the
\* target's gene vector.  It raises, or the call goes on to the target matrix.
predictor(tgt_genes) ==
    /\ pc = "idle"
    /\ LET f == [ NoFrame EXCEPT !.op = "predictor", !.genes = tgt_genes,
                                 !.phase = "check" ]
           c == _check(attrs, tgt_genes)
       IN  IF c # "ok"
           THEN /\ pc' = "idle"
                /\ last' = Ended(f, c, IF c = "RuntimeError" THEN 183
                                       ELSE IF "genes" \in attrs /\ c = "AttributeError"
                                            THEN 185 ELSE 182, << >>)
                /\ frame' = NoFrame
           ELSE /\ pc' = "load_target"
                /\ frame' = f
                /\ last' = last
    /\ UNCHANGED << ctor, stage, attrs, genes, loader, G, D, P, sch, lr_steps, rng, cnt >>

\* The call that is loading its target repeats the call that finished just
\* before it: predictor on the same target, which got past _check.
Repeats(n_tgt, predict_epochs) ==
    /\ last.op = "predictor"
    /\ last.phase # "check"
    /\ last.genes = frame.genes
    /\ last.rows = n_tgt
    /\ last.epochs = predict_epochs

\* predictor, lines 90-97: read the target matrix (n_tgt rows), replace the
\* loader by an unshuffled one over it that keeps its last, short batch, and
\* put both networks in evaluation mode.
load_target(n_tgt, predict_epochs) ==
    /\ pc = "load_target"
    /\ loader' = [ n |-> n_tgt, bs |-> bs, drop_last |-> FALSE, shuffle |-> FALSE ]
    /\ D' = [ D EXCEPT !.training = FALSE ]
    /\ G' = [ G EXCEPT !.training = FALSE ]
    /\ frame' = [ frame EXCEPT !.rows = n_tgt, !.epochs = predict_epochs,
                               !.phase = "score", !.i = 1,
                               !.again = Repeats(n_tgt, predict_epochs),
                               !.before = IF Repeats(n_tgt, predict_epochs)
                                          THEN << last.outcome, last.output >>
                                          ELSE << >> ]
    /\ pc' = "score"
    /\ last' = NoCall
    /\ UNCHANGED << ctor, stage, attrs, genes, P, sch, lr_steps, rng, cnt >>

\* predictor, lines 100-105: one iteration of the scoring loop.
score ==
    /\ pc = "score"
    /\ frame.i <= NumBatches(loader)
    /\ LET fake == GeneratorAD_forward(G)
           rows == BatchRows(loader, frame.i)
           f1   == [ frame EXCEPT !.real_d = @ \o rows ]
       IN  /\ G' = fake.G
           /\ IF Discriminator_forward(fake.ret) # "ok"
              THEN /\ pc' = "idle"
                   /\ last' = Ended(f1, Discriminator_forward(fake.ret), 105, << >>)
                   /\ frame' = NoFrame
              ELSE /\ frame' = [ f1 EXCEPT !.fake_d = @ \o rows, !.i = @ + 1 ]
                   /\ pc' = "score"
                   /\ last' = last
    /\ UNCHANGED << ctor, stage, attrs, genes, loader, D, P, sch, lr_steps, rng, cnt >>

\* Predictor.forward in evaluation mode: one probability per sample, a
\* function of the sample's two scores and of the Predictor's weights.
Predictor_forward(p, real_d, fake_d) ==
    [ r \in 1..Len(real_d) |-> << real_d[r], fake_d[r], p.init, p.steps >> ]

\* torch.cat(list, dim=0): fails on an empty list.
Cat(list) == IF Len(list) = 0 THEN "RuntimeError" ELSE "ok"

\* predictor, lines 107-130: concatenate the collected scores, build a fresh
\* Predictor with its optimizer and scheduler, train it for predict_epochs
\* epochs on the two score vectors (one optimizer step and one scheduler
\* step per epoch), put it in evaluation mode, evaluate it once and return.
calibrate ==
    /\ pc = "score"
    /\ frame.i > NumBatches(loader)
    /\ IF Cat(frame.real_d) # "ok"
       THEN /\ Raise(Cat(frame.real_d), 107)
            /\ UNCHANGED << P, sch, lr_steps, rng, attrs >>
       ELSE /\ P' = [ init |-> rng, steps |-> frame.epochs, training |-> FALSE ]
            /\ rng' = (rng + 1) % RngStates
            /\ sch' = [ sch EXCEPT !.sch_P = "opt_P" ]
            /\ lr_steps' = [ lr_steps EXCEPT !.opt_P = frame.epochs ]
            /\ attrs' = attrs \cup { "P", "opt_P", "sch_P" }
            /\ pc' = "idle"
            /\ last' = Ended([ frame EXCEPT !.phase = "calibrate" ], "returned", 130,
                             Predictor_forward(P', frame.real_d, frame.fake_d))
            /\ frame' = NoFrame
    /\ UNCHANGED << ctor, stage, genes, loader, G, D, cnt >>

\* ----------------------------------------------------------- specification
Next ==
    \/ \E g \in RefGenes, n \in 1..MaxRows, e \in 0..MaxEpochs : detector(g, n, e)
    \/ \E g \in GeneVectors : predictor(g)
    \/ \E n \in 0..MaxRows, e \in 0..MaxEpochs : load_target(n, e)
    \/ _prepare
    \/ train_loop
    \/ _update_D
    \/ _update_G
    \/ prepare_report
    \/ sched
    \/ train_report
    \/ score
    \/ calibrate

Spec == Init /\ [][Next]_vars

\* ================================================================= claims
DetectorEnded  == pc = "idle" /\ last.op = "detector"
PredictorEnded == pc = "idle" /\ last.op = "predictor"
Identity(n)    == [ r \in 1..n |-> r ]

\* C1: detector on a reference, and predictor on a target whose gene vector
\* equals the stored one, complete without raising: every finished detector
\* call has returned, and so has every finished predictor call that was made
\* after detector with the stored gene vector.
C1_NeverRaises ==
    /\ DetectorEnded => last.outcome = "returned"
    /\ (PredictorEnded /\ last.trained /\ last.genes = last.stored)
          => last.outcome = "returned"

\* C2: a predictor call made before any detector call, or with a gene vector
\* that differs from the stored one (other names, a permutation, another
\* length), raises out of the precondition check, before scoring starts, and
\* returns no score vector.
C2_PredictorRejects ==
    (PredictorEnded /\ (~ last.trained \/ last.genes # last.stored))
       => /\ last.outcome \in { "AttributeError", "ValueError", "RuntimeError" }
          /\ last.phase = "check"
          /\ last.real_d = << >>
          /\ last.output = << >>

C2_Witness ==
    /\ PredictorEnded
    /\ last.trained
    /\ last.stored = << "a", "b" >>
    /\ last.genes = << "b", "a" >>
    /\ last.outcome = "RuntimeError"

\* C3: a predictor call on a non-empty target that got past the precondition
\* check returns a vector with one entry per target row, and its scoring loop
\* has collected a real score and a fake score for every row
\* 1..n_target_samples, in row order.
C3_OneScorePerRow ==
    (PredictorEnded /\ last.phase # "check" /\ last.rows >= 1)
       => /\ last.outcome = "returned"
          /\ Len(last.output) = last.rows
          /\ last.real_d = Identity(last.rows)
          /\ last.fake_d = Identity(last.rows)

\* C4: a predictor call that repeats the call just finished (same non-empty
\* target, same trained object) returns, and returns the vector the first
\* call returned.
C4_RepeatIdentical ==
    (PredictorEnded /\ last.again /\ last.rows >= 1)
       => /\ last.outcome = "returned"
          /\ last.before = << "returned", last.output >>

\* C5: with the accelerator asked for and absent the device is the host CPU
\* and the warning was printed; the device is the accelerator exactly when it
\* was asked for and is present; and this holds in every state, whatever
\* detector and predictor have done since construction.
C5_DeviceChoice ==
    /\ device \in { "cpu", "cuda:0" }
    /\ (GPU /\ ~ cuda_available) => (device = "cpu" /\ warned)
    /\ device = "cuda:0" <=> (GPU /\ cuda_available)

C5_Witness ==
    /\ GPU /\ ~ cuda_available
    /\ device = "cpu" /\ warned
    /\ PredictorEnded /\ last.trained

\* C6: when detector ends, the prepare phase has done exactly
\* prepare_epochs * B discriminator steps and prepare_epochs * B generator
\* steps, B being the number of batches one pass of the loader yields.
C6_PrepareUpdateCounts ==
    DetectorEnded
       => /\ cnt.prepare.dStep = last.epochs * last.batches
          /\ cnt.prepare.gStep = last.epochs * last.batches

\* C7: when a detector call that reached the adversarial phase ends, that
\* phase has done exactly n_epochs * n_critic * B discriminator steps and
\* n_epochs * B generator steps.
C7_AdversarialUpdateCounts ==
    (DetectorEnded /\ last.phase = "train")
       => /\ cnt.train.dStep = n_epochs * n_critic * last.batches
          /\ cnt.train.gStep = n_epochs * last.batches

\* C8: no learning rate is stepped during the prepare phase, and once the
\* schedulers of adversarial epoch k (counted from 0) have stepped, the
\* discriminator's optimizer and the generator's optimizer have each had
\* their learning rate stepped exactly k + 1 times.
C8_SchedulersStepOncePerEpoch ==
    /\ frame.phase = "prepare" => (lr_steps.opt_D = 0 /\ lr_steps.opt_G = 0)
    /\ pc = "train_report"
          => /\ lr_steps.opt_D = frame.epoch + 1
             /\ lr_steps.opt_G = frame.epoch + 1

PredictorStep ==
    \/ frame.op = "predictor"
    \/ pc = "idle" /\ frame'.op # "detector"

\* C10: a discriminator update leaves the generator (weights and memory bank)
\* as it was; a generator update leaves the discriminator as it was; no step
\* of predictor changes the weights of the generator, its memory bank or the
\* weights of the discriminator; and weights are stepped only by the update
\* of their own component.
C10_Frame ==
    [][ /\ pc = "update_D" => G' = G
        /\ pc = "update_G" => D' = D
        /\ PredictorStep =>
              /\ G'.init = G.init /\ G'.steps = G.steps /\ G'.mem = G.mem
              /\ D'.init = D.init /\ D'.steps = D.steps
        /\ G'.steps # G.steps => (pc = "update_G" \/ frame'.op = "detector")
        /\ D'.steps # D.steps => (pc = "update_D" \/ frame'.op = "detector")
      ]_vars

\* C11: a predictor call on a non-empty target that got past the
\* precondition check ends with a Predictor that has taken exactly
\* predict_epochs optimizer steps and whose learning rate was stepped exactly
\* predict_epochs times, in evaluation mode, and returns that Predictor's one
\* evaluation on the pair of score vectors the scoring loop collected.
C11_CalibrationSteps ==
    (PredictorEnded /\ last.phase # "check" /\ last.rows >= 1)
       => /\ "P" \in attrs
          /\ P.steps = last.epochs
          /\ lr_steps.opt_P = last.epochs
          /\ ~ P.training
          /\ last.outcome = "returned"
          /\ last.output = Predictor_forward(P, last.real_d, last.fake_d)

\* C12: the phases run only in the order uninitialized, prepared,
\* adversarial-trained, scored, calibrated: an adversarial update is called
\* only after _prepare has returned, a scoring forward pass is made only
\* after the adversarial loop of detector has completed, the Predictor is
\* trained only after every row of the target has been scored, and G and D
\* are in training mode throughout detector and in evaluation mode while
\* scoring.
C12_UpdateAfterPrepare ==
    (pc \in { "update_D", "update_G" } /\ frame.phase = "train")
       => stage = "prepared"

C12_ScoreAfterTraining ==
    (pc = "score" /\ frame.i <= NumBatches(loader)) => stage = "trained"

C12_CalibrateAfterScoring ==
    (PredictorEnded /\ last.phase = "calibrate")
       => Len(last.real_d) = last.rows /\ Len(last.fake_d) = last.rows

C12_Modes ==
    /\ frame.op = "detector" => G.training /\ D.training
    /\ pc = "score" => ~ G.training /\ ~ D.training

C12_PhaseOrder ==
    /\ C12_UpdateAfterPrepare
    /\ C12_ScoreAfterTraining
    /\ C12_CalibrateAfterScoring
    /\ C12_Modes

\* The step of a predictor call that raises on a target whose gene vector
\* differs from the stored one (in length, or at some position).
GeneMismatchRaise ==
    /\ pc = "idle"
    /\ pc' = "idle"
    /\ last'.op = "predictor"
    /\ last'.phase = "check"
    /\ last'.outcome \in { "RuntimeError", "ValueError" }

\* C13: a predictor call that raises because of a gene mismatch touches
\* nothing of the orchestrator: hyperparameters and device, attributes,
\* stored gene vector, loader, G and D (weights, memory bank, mode), the
\* Predictor with its optimizer and scheduler, learning-rate schedules,
\* random state and update counts are exactly what they were, so the state
\* from which a following predictor call with matching genes starts is the
\* state it would have started from without the failed call.
C13_MismatchTouchesNothing ==
    [][ GeneMismatchRaise =>
           /\ UNCHANGED << ctor, attrs, genes, loader, G, D, P, sch, lr_steps,
                           rng, cnt, stage >>
           /\ frame' = NoFrame
           /\ \A g \in GeneVectors : _check(attrs, g)' = _check(attrs, g)
      ]_vars

C13_Witness ==
    /\ PredictorEnded
    /\ last.phase = "check"
    /\ last.outcome \in { "RuntimeError", "ValueError" }
    /\ { "G", "D", "loader" } \subseteq attrs
    /\ loader.n >= 1
    /\ ~ loader.drop_last
    /\ ~ G.training

\* The number of update calls made so far by the running or last detector call.
UpdateCalls ==
    cnt.prepare.dCall + cnt.prepare.gCall + cnt.train.dCall + cnt.train.gCall

\* C14: every batch a prepare or adversarial update works on has exactly
\* batch_size rows: the training loader drops its incomplete tail, so a pass
\* yields floor(n_ref / batch_size) batches; and with fewer than batch_size
\* reference rows no discriminator or generator update is ever called, and
\* neither G_loss nor D_loss exists when detector reaches a loss report.
C14_FullBatchesOnly ==
    /\ frame.op = "detector" =>
          /\ loader.drop_last
          /\ loader.n = frame.rows /\ loader.bs = bs
          /\ NumBatches(loader) = frame.rows \div bs
          /\ \A k \in 1..NumBatches(loader) : Len(BatchRows(loader, k)) = bs
    /\ pc \in { "update_D", "update_G" } =>
          /\ frame.i \in 1..NumBatches(loader)
          /\ frame.j \in 1..NumBatches(loader)
          /\ Len(BatchRows(loader, frame.j)) = bs
    /\ (frame.op = "detector" /\ frame.rows < bs) =>
          /\ pc \notin { "update_D", "update_G" }
          /\ UpdateCalls = 0
          /\ pc \in { "prepare_report", "train_report" }
                => { "G_loss", "D_loss" } \cap attrs = { }
    /\ (DetectorEnded /\ last.rows < bs) =>
          /\ UpdateCalls = 0
          /\ last.batches = 0
          /\ last.outcome = "AttributeError" => last.line \in { 141, 81 }
          /\ last.outcome = "returned" => last.epochs = 0 /\ n_epochs = 0
    /\ DetectorEnded => last.batches = last.rows \div bs

C14_Witness ==
    /\ DetectorEnded
    /\ last.rows > bs
    /\ last.rows % bs # 0
    /\ last.batches = last.rows \div bs
    /\ UpdateCalls >= 1

====
